---- MODULE Spec2Model ----
(***************************************************************************)
(* A model of ThreadPool (src/include/thread_pool.hpp) together with the   *)
(* threads that use it: the owner that constructs and destroys the pool,   *)
(* the callers of submit() and future::get(), and the worker threads.      *)
(* Every step is one atomic access to the shared state (queue_mutex_,      *)
(* tasks_, stop_, status_update_, the packaged tasks' shared states).      *)
(***************************************************************************)
EXTENDS Integers, Sequences, FiniteSets, TLC

\* ---------------------------------------------------------------- bounds
MaxThreads == 2     \* largest num_threads the owner passes to the constructor
MaxTasks == 2       \* number of submit() calls made over the pool's life
NumCallers == 2     \* number of threads that call submit() and get()

\* ----------------------------------------------------------- vocabulary
ThreadCounts == (0 - 1)..MaxThreads       \* values of num_threads tried
WorkerIds == 1..MaxThreads                \* position in workers_ (1-based)
Callers == 1..NumCallers
TaskIds == 1..MaxTasks
NoThread == <<"none">>                    \* queue_mutex_ is unlocked
Owner == <<"owner">>                      \* the thread running ctor / dtor
W(w) == <<"worker", w>>
C(c) == <<"caller", c>>
Pending == <<"pending">>                  \* shared state not yet written
Failure == <<"exception">>                \* shared state holds an exception
Value(v) == <<"value", v>>                \* shared state holds a value
NoTask == 0
NotRetrieved == <<"valid">>             \* get() has not been called on the future

\* The callables of the example program and one that throws.
add(a, b) == a + b
multiply(a, b) == a * b
Jobs == { [f |-> "add", args |-> <<1, 2>>],
          [f |-> "multiply", args |-> <<3, 4>>],
          [f |-> "throws", args |-> <<0, 0>>] }

VARIABLES
    num_threads,   \* the constructor's argument
    workers_,      \* sequence of worker ids, in emplace_back order
    tasks_,        \* the queue: sequence of task ids, front first
    queue_mutex_,  \* the thread that holds the mutex, or NoThread
    stop_,         \* the stop flag
    waiters,       \* workers blocked inside status_update_.wait
    pool,          \* position of the owner thread in ctor / dtor
    joinIdx,       \* index into workers_ of the constructor / destructor loop
    joinable,      \* joinable[w]: std::thread::joinable() of workers_[w]
    wpc,           \* position of each worker thread in workerThread()
    wtask,         \* the local `task` of each worker (a task id or NoTask)
    cpc,           \* position of each caller inside submit()
    cur,           \* the task id of the submit() call a caller is inside
    callerArgs,    \* the argument objects of a caller's latest submit() call
    packaged,      \* packaged[id]: the packaged_task made by submit() number id
    shared,        \* shared[id]: the shared state of that task's future
    got,           \* got[id]: what future::get() returned, or NotRetrieved
    nextId,        \* number of submit() calls begun
    submitted,     \* history: the callable and arguments passed to submit()
    enqueued,      \* history: task ids in the order they were emplaced
    execCount,     \* history: how many times each task was invoked
    preStop,       \* history: ids emplaced while stop_ was false
    liveEnq        \* history: ids emplaced while some worker had not returned

vars == << num_threads, workers_, tasks_, queue_mutex_, stop_, waiters, pool,
           joinIdx, joinable, wpc, wtask, cpc, cur, callerArgs, packaged,
           shared, got, nextId, submitted, enqueued, execCount, preStop, liveEnq >>

poolVars == << num_threads, workers_, pool, joinIdx, joinable >>
callerVars == << cpc, cur, callerArgs, packaged, nextId >>
histVars == << submitted, enqueued, preStop, liveEnq >>

\* -------------------------------------------------------------- helpers
Range(s) == { s[i] : i \in 1..Len(s) }

\* std::bind(f, args...): the callable and decayed copies of the arguments.
BindTask(job, c) == [f |-> job.f, args |-> job.args, owner |-> c]

\* An emplace that puts the task in front of the queue.
EmplaceFront(q, id) == <<id>> \o q

\* tasks_.emplace(...)
Emplace(q, id) == Append(q, id)

\* A queue whose front() yields the newest element (a stack).
FrontNewest(q) == q[Len(q)]

\* tasks_.front()
Front(q) == Head(q)

\* A pop() that leaves the queue as it was.
PopNothing(q) == q

\* tasks_.pop()
Pop(q) == Tail(q)

\* A lock that is taken without waiting for its holder.
CanLockAlways(m) == TRUE

\* std::unique_lock<std::mutex> lock(queue_mutex_) may return
CanLock(m) == m = NoThread

\* A constructor loop that runs once too often.
CtorLoopCondInclusive(i, n) == i <= n

\* the condition of the constructor's loop
CtorLoopCond(i, n) == i < n

\* A destructor that leaves the flag as it is.
StopUnset(s) == s

\* stop_ = true
StopSet(s) == TRUE

\* A wait without a predicate: any wake-up lets the worker go on.
WaitNoPredicate(stop, q) == TRUE

\* A worker that leaves as soon as stop_ is set.
ExitOnStop(stop, q) == stop

\* A notify_all that wakes nobody.
NotifyAllNone(ws) == {}

\* the predicate of status_update_.wait
WaitPredicate(stop, q) == stop \/ q # <<>>

\* the exit test of the worker loop
ExitCondition(stop, q) == stop /\ q = <<>>

\* the bound callable applied to its bound arguments
Apply(f, args) ==
    CASE f = "add" -> Value(add(args[1], args[2]))
      [] f = "multiply" -> Value(multiply(args[1], args[2]))
      [] f = "throws" -> Failure

\* A task that holds references to the caller's argument objects and reads
\* them when it runs.
InvokeByReference(t, cargs) == Apply(t.f, cargs)

\* (*task)(): the packaged task runs the bound callable on the stored copies
\* of the arguments and stores the value or the exception.
Invoke(t, cargs) == Apply(t.f, t.args)

\* A task whose exception escapes task() and ends the worker thread.
AfterTaskUncaught(outcome) == IF outcome = Failure THEN "done" ELSE "lock"

\* What leaves task() into the worker loop: the packaged_task keeps the
\* exception, so the call returns normally and the loop goes on.
AfterTask(outcome) == "lock"

\* A submit() that wakes every waiter.
NotifyBroadcast(ws) == { ws }

\* A submit() that notifies nobody.
NotifyNone(ws) == { {} }

\* status_update_.notify_one(): the sets of waiters that may be unblocked.
NotifyOne(ws) == IF ws = {} THEN { {} } ELSE { {w} : w \in ws }

\* status_update_.notify_all()
NotifyAll(ws) == ws

\* A worker that calls task() inside the lock scope.
WorkerKeepsLock(w) == W(w)

\* The mutex once the worker's lock scope is closed, before task() is called.
WorkerScopeExit(w) == NoThread

\* A get() that does not wait for the shared state.
FutureReadyAlways(s) == TRUE

\* future::get() may return
FutureReady(s) == s # Pending

Wake(ws) == [w \in WorkerIds |-> IF w \in ws THEN "relock" ELSE wpc[w]]

Returned(w) == wpc[w] = "done"
Spawned == Range(workers_)
SomeWorkerAlive == \E w \in Spawned : ~Returned(w)

\* ----------------------------------------------------------------- Init
Init ==
    /\ num_threads \in ThreadCounts
    /\ workers_ = <<>>
    /\ tasks_ = <<>>
    /\ queue_mutex_ = NoThread
    /\ stop_ = FALSE
    /\ waiters = {}
    /\ pool = "constructing"
    /\ joinIdx = 0
    /\ joinable = [w \in WorkerIds |-> FALSE]
    /\ wpc = [w \in WorkerIds |-> "unborn"]
    /\ wtask = [w \in WorkerIds |-> NoTask]
    /\ cpc = [c \in Callers |-> "idle"]
    /\ cur = [c \in Callers |-> NoTask]
    /\ callerArgs = [c \in Callers |-> <<0, 0>>]
    /\ packaged = [id \in TaskIds |-> [f |-> "none", args |-> <<0, 0>>, owner |-> 0]]
    /\ shared = [id \in TaskIds |-> Pending]
    /\ got = [id \in TaskIds |-> NotRetrieved]
    /\ nextId = 0
    /\ submitted = [id \in TaskIds |-> [f |-> "none", args |-> <<0, 0>>]]
    /\ enqueued = <<>>
    /\ execCount = [id \in TaskIds |-> 0]
    /\ preStop = {}
    /\ liveEnq = {}

\* ---------------------------------------------------------- constructor
\* One iteration of the constructor's loop: spawn a worker.
CtorSpawn ==
    /\ pool = "constructing"
    /\ CtorLoopCond(joinIdx, num_threads)
    /\ workers_' = Append(workers_, joinIdx + 1)
    /\ joinable' = [joinable EXCEPT ![joinIdx + 1] = TRUE]
    /\ wpc' = [wpc EXCEPT ![joinIdx + 1] = "lock"]
    /\ joinIdx' = joinIdx + 1
    /\ UNCHANGED << num_threads, pool, tasks_, queue_mutex_, stop_, waiters,
                    wtask, callerVars, shared, got, execCount, histVars >>

\* The loop condition is false: the constructor returns a pool.
CtorReturn ==
    /\ pool = "constructing"
    /\ ~CtorLoopCond(joinIdx, num_threads)
    /\ pool' = "live"
    /\ joinIdx' = 0
    /\ UNCHANGED << num_threads, workers_, joinable, tasks_, queue_mutex_, stop_,
                    waiters, wpc, wtask, callerVars, shared, got, execCount,
                    histVars >>

\* --------------------------------------------------------------- submit
PoolUsable == pool \in {"live", "dtorLock", "dtorStop", "dtorNotify", "dtorJoin"}

\* make_shared<packaged_task>(bind(f, args...)) and get_future()
SubmitBind(c, job) ==
    /\ PoolUsable
    /\ cpc[c] = "idle"
    /\ nextId < MaxTasks
    /\ nextId' = nextId + 1
    /\ cur' = [cur EXCEPT ![c] = nextId + 1]
    /\ callerArgs' = [callerArgs EXCEPT ![c] = job.args]
    /\ packaged' = [packaged EXCEPT ![nextId + 1] = BindTask(job, c)]
    /\ cpc' = [cpc EXCEPT ![c] = "lock"]
    /\ submitted' = [submitted EXCEPT ![nextId + 1] = job]
    /\ UNCHANGED << poolVars, tasks_, queue_mutex_, stop_, waiters, wpc, wtask,
                    shared, got, execCount, enqueued, preStop, liveEnq >>

\* std::unique_lock<std::mutex> lock(queue_mutex_)
SubmitLock(c) ==
    /\ PoolUsable
    /\ cpc[c] = "lock"
    /\ CanLock(queue_mutex_)
    /\ queue_mutex_' = C(c)
    /\ cpc' = [cpc EXCEPT ![c] = "emplace"]
    /\ UNCHANGED << poolVars, tasks_, stop_, waiters, wpc, wtask, cur, callerArgs,
                    packaged, nextId, shared, got, execCount, histVars >>

\* tasks_.emplace(...) and the end of the lock scope
SubmitEmplace(c) ==
    /\ PoolUsable
    /\ cpc[c] = "emplace"
    /\ tasks_' = Emplace(tasks_, cur[c])
    /\ queue_mutex_' = NoThread
    /\ cpc' = [cpc EXCEPT ![c] = "notify"]
    /\ enqueued' = Append(enqueued, cur[c])
    /\ preStop' = IF stop_ THEN preStop ELSE preStop \cup {cur[c]}
    /\ liveEnq' = IF SomeWorkerAlive THEN liveEnq \cup {cur[c]} ELSE liveEnq
    /\ UNCHANGED << poolVars, stop_, waiters, wpc, wtask, cur, callerArgs,
                    packaged, nextId, shared, got, execCount, submitted >>

\* status_update_.notify_one(); return result
SubmitNotify(c) ==
    /\ PoolUsable
    /\ cpc[c] = "notify"
    /\ \E ws \in NotifyOne(waiters) :
          /\ waiters' = waiters \ ws
          /\ wpc' = Wake(ws)
    /\ cpc' = [cpc EXCEPT ![c] = "idle"]
    /\ cur' = [cur EXCEPT ![c] = NoTask]
    /\ UNCHANGED << poolVars, tasks_, queue_mutex_, stop_, wtask, callerArgs,
                    packaged, nextId, shared, got, execCount, histVars >>

\* The handles a caller holds: those its finished submit() calls returned.
Held(c) == { id \in 1..nextId : packaged[id].owner = c /\ cur[c] # id }

\* future::get(): blocks until the shared state is ready, then yields it.
Get(c, id) ==
    /\ cpc[c] = "idle"
    /\ id \in Held(c)
    /\ got[id] = NotRetrieved
    /\ FutureReady(shared[id])
    /\ got' = [got EXCEPT ![id] = shared[id]]
    /\ UNCHANGED << poolVars, tasks_, queue_mutex_, stop_, waiters, wpc, wtask,
                    callerVars, shared, execCount, histVars >>

\* --------------------------------------------------------- workerThread
\* std::unique_lock<std::mutex> lock(queue_mutex_), also on wake-up
WorkerLock(w) ==
    /\ wpc[w] \in {"lock", "relock"}
    /\ CanLock(queue_mutex_)
    /\ queue_mutex_' = W(w)
    /\ wpc' = [wpc EXCEPT ![w] = "check"]
    /\ UNCHANGED << poolVars, tasks_, stop_, waiters, wtask, callerVars, shared,
                    got, execCount, histVars >>

\* wait(lock, pred) with pred false: release the mutex and block
WorkerWait(w) ==
    /\ wpc[w] = "check"
    /\ ~WaitPredicate(stop_, tasks_)
    /\ queue_mutex_' = NoThread
    /\ waiters' = waiters \cup {w}
    /\ wpc' = [wpc EXCEPT ![w] = "waiting"]
    /\ UNCHANGED << poolVars, tasks_, stop_, wtask, callerVars, shared, got,
                    execCount, histVars >>

\* a spurious wake-up of a blocked worker
WorkerSpurious(w) ==
    /\ wpc[w] = "waiting"
    /\ w \in waiters
    /\ waiters' = waiters \ {w}
    /\ wpc' = [wpc EXCEPT ![w] = "relock"]
    /\ UNCHANGED << poolVars, tasks_, queue_mutex_, stop_, wtask, callerVars,
                    shared, got, execCount, histVars >>

\* pred true, stop_ && tasks_.empty(): return (the lock is released)
WorkerExit(w) ==
    /\ wpc[w] = "check"
    /\ WaitPredicate(stop_, tasks_)
    /\ ExitCondition(stop_, tasks_)
    /\ queue_mutex_' = NoThread
    /\ wpc' = [wpc EXCEPT ![w] = "done"]
    /\ UNCHANGED << poolVars, tasks_, stop_, waiters, wtask, callerVars, shared,
                    got, execCount, histVars >>

\* What task = move(tasks_.front()) leaves in `task`.  The code does not test
\* the queue here: front() of an empty queue is undefined and may leave
\* anything.
FrontOutcomes(q) == IF q = <<>> THEN TaskIds \cup {NoTask} ELSE {Front(q)}

\* pred true, otherwise: task = move(tasks_.front()); tasks_.pop(); end of scope
WorkerDequeue(w) ==
    /\ wpc[w] = "check"
    /\ WaitPredicate(stop_, tasks_)
    /\ ~ExitCondition(stop_, tasks_)
    /\ \E t \in FrontOutcomes(tasks_) : wtask' = [wtask EXCEPT ![w] = t]
    /\ tasks_' = IF tasks_ = <<>> THEN <<>> ELSE Pop(tasks_)
    /\ queue_mutex_' = WorkerScopeExit(w)
    /\ wpc' = [wpc EXCEPT ![w] = "run"]
    /\ UNCHANGED << poolVars, stop_, waiters, callerVars, shared, got, execCount,
                    histVars >>

\* task(): run the packaged task, which writes its shared state
WorkerRun(w) ==
    /\ wpc[w] = "run"
    /\ wtask[w] # NoTask
    /\ packaged[wtask[w]].f # "none"
    /\ LET id == wtask[w]
           outcome == Invoke(packaged[id], callerArgs[packaged[id].owner])
       IN /\ shared' = [shared EXCEPT ![id] = outcome]
          /\ execCount' = [execCount EXCEPT ![id] = @ + 1]
          /\ wpc' = [wpc EXCEPT ![w] = AfterTask(outcome)]
    /\ wtask' = [wtask EXCEPT ![w] = NoTask]
    /\ UNCHANGED << poolVars, tasks_, queue_mutex_, stop_, waiters, callerVars,
                    got, histVars >>

\* ----------------------------------------------------------- destructor
\* The owner lets the pool go out of scope: the destructor begins.
DtorBegin ==
    /\ pool = "live"
    /\ pool' = "dtorLock"
    /\ UNCHANGED << num_threads, workers_, joinIdx, joinable, tasks_, queue_mutex_,
                    stop_, waiters, wpc, wtask, callerVars, shared, got,
                    execCount, histVars >>

DtorLock ==
    /\ pool = "dtorLock"
    /\ CanLock(queue_mutex_)
    /\ queue_mutex_' = Owner
    /\ pool' = "dtorStop"
    /\ UNCHANGED << num_threads, workers_, joinIdx, joinable, tasks_, stop_,
                    waiters, wpc, wtask, callerVars, shared, got, execCount,
                    histVars >>

\* stop_ = true; end of the lock scope
DtorSetStop ==
    /\ pool = "dtorStop"
    /\ stop_' = StopSet(stop_)
    /\ queue_mutex_' = NoThread
    /\ pool' = "dtorNotify"
    /\ UNCHANGED << num_threads, workers_, joinIdx, joinable, tasks_, waiters,
                    wpc, wtask, callerVars, shared, got, execCount, histVars >>

\* status_update_.notify_all()
DtorNotifyAll ==
    /\ pool = "dtorNotify"
    /\ waiters' = waiters \ NotifyAll(waiters)
    /\ wpc' = Wake(NotifyAll(waiters))
    /\ pool' = "dtorJoin"
    /\ joinIdx' = 0
    /\ UNCHANGED << num_threads, workers_, joinable, tasks_, queue_mutex_, stop_,
                    wtask, callerVars, shared, got, execCount, histVars >>

\* One iteration of the join loop: join() returns when the thread has ended.
DtorJoin ==
    /\ pool = "dtorJoin"
    /\ joinIdx < Len(workers_)
    /\ LET w == workers_[joinIdx + 1]
       IN IF joinable[w]
          THEN /\ Returned(w)
               /\ joinable' = [joinable EXCEPT ![w] = FALSE]
          ELSE UNCHANGED joinable
    /\ joinIdx' = joinIdx + 1
    /\ UNCHANGED << num_threads, workers_, pool, tasks_, queue_mutex_, stop_,
                    waiters, wpc, wtask, callerVars, shared, got, execCount,
                    histVars >>

\* The join loop is over: the destructor returns.
DtorReturn ==
    /\ pool = "dtorJoin"
    /\ ~(joinIdx < Len(workers_))
    /\ pool' = "destroyed"
    /\ UNCHANGED << num_threads, workers_, joinIdx, joinable, tasks_, queue_mutex_,
                    stop_, waiters, wpc, wtask, callerVars, shared, got,
                    execCount, histVars >>

\* ------------------------------------------------------- specifications
Next ==
    \/ CtorSpawn
    \/ CtorReturn
    \/ \E c \in Callers, job \in Jobs : SubmitBind(c, job)
    \/ \E c \in Callers : SubmitLock(c)
    \/ \E c \in Callers : SubmitEmplace(c)
    \/ \E c \in Callers : SubmitNotify(c)
    \/ \E c \in Callers, id \in TaskIds : Get(c, id)
    \/ \E w \in WorkerIds : WorkerLock(w)
    \/ \E w \in WorkerIds : WorkerWait(w)
    \/ \E w \in WorkerIds : WorkerSpurious(w)
    \/ \E w \in WorkerIds : WorkerExit(w)
    \/ \E w \in WorkerIds : WorkerDequeue(w)
    \/ \E w \in WorkerIds : WorkerRun(w)
    \/ DtorBegin
    \/ DtorLock
    \/ DtorSetStop
    \/ DtorNotifyAll
    \/ DtorJoin
    \/ DtorReturn

Spec == Init /\ [][Next]_vars

\* The steps of each thread that the scheduler owes it once they are
\* possible.  The owner is not obliged to begin the destructor, nor a caller
\* to call submit() or get(), and a blocked worker is not owed a spurious
\* wake-up.
WorkerStep(w) ==
    \/ WorkerLock(w)
    \/ WorkerWait(w)
    \/ WorkerExit(w)
    \/ WorkerDequeue(w)
    \/ WorkerRun(w)

CallerStep(c) ==
    \/ SubmitLock(c)
    \/ SubmitEmplace(c)
    \/ SubmitNotify(c)

OwnerStep ==
    \/ CtorSpawn
    \/ CtorReturn
    \/ DtorLock
    \/ DtorSetStop
    \/ DtorNotifyAll
    \/ DtorJoin
    \/ DtorReturn

\* Scheduling: a thread whose next step is possible again and again takes
\* it (a thread asking for queue_mutex_ gets it if the mutex keeps
\* becoming free).
Fairness ==
    /\ \A w \in WorkerIds : SF_vars(WorkerStep(w))
    /\ \A c \in Callers : SF_vars(CallerStep(c))
    /\ SF_vars(OwnerStep)

\* The pool under fair scheduling.  What a task computes and who reads its
\* handle have no influence on the scheduling of the pool's threads, so the
\* callers here submit a callable that returns or one that throws, and
\* nobody calls get().
LiveJobs == { job \in Jobs : job.f \in {"add", "throws"} }

LiveNext ==
    \/ CtorSpawn
    \/ CtorReturn
    \/ \E c \in Callers, job \in LiveJobs : SubmitBind(c, job)
    \/ \E c \in Callers : CallerStep(c)
    \/ \E w \in WorkerIds : WorkerStep(w)
    \/ \E w \in WorkerIds : WorkerSpurious(w)
    \/ DtorBegin
    \/ DtorLock
    \/ DtorSetStop
    \/ DtorNotifyAll
    \/ DtorJoin
    \/ DtorReturn

LiveSpec == Init /\ [][LiveNext]_vars /\ Fairness

\* ------------------------------------------------------------ properties
Started(id) == execCount[id] > 0 \/ \E w \in WorkerIds : wtask[w] = id
Finished(id) == shared[id] # Pending
Destroyed == pool = "destroyed"

\* What the caller of submit(job) is entitled to read from the handle.
Expected(job) ==
    CASE job = [f |-> "add", args |-> <<1, 2>>] -> Value(3)
      [] job = [f |-> "multiply", args |-> <<3, 4>>] -> Value(12)
      [] job = [f |-> "throws", args |-> <<0, 0>>] -> Failure

\* C1: every task runs exactly once: no task is invoked twice, no task is
\* held by two workers or by a worker and the queue at once, and when the
\* destructor of a pool with at least one worker has returned every task
\* emplaced before stop_ was set has run once.
C1_ExactlyOnce ==
    /\ \A id \in TaskIds : execCount[id] <= 1
    /\ \A w1, w2 \in WorkerIds :
          (w1 # w2 /\ wtask[w1] # NoTask) => wtask[w1] # wtask[w2]
    /\ \A w \in WorkerIds :
          wtask[w] # NoTask => (wtask[w] \notin Range(tasks_) /\ execCount[wtask[w]] = 0)
    /\ \A i, j \in 1..Len(tasks_) : tasks_[i] = tasks_[j] => i = j
    /\ (Destroyed /\ num_threads >= 1) => \A id \in preStop : execCount[id] = 1

C1_Witness ==
    /\ Destroyed
    /\ num_threads = 2
    /\ Cardinality(preStop) = 2
    /\ \A id \in preStop : execCount[id] = 1

\* C2: when the destructor of a pool with at least one worker has returned,
\* every task emplaced before stop_ was set has finished, the queue is
\* empty and no worker is inside a task.
C2_DestructorDrains ==
    (Destroyed /\ num_threads >= 1) =>
        /\ \A id \in preStop : Finished(id)
        /\ tasks_ = <<>>
        /\ \A w \in WorkerIds : wpc[w] # "run"

\* C3: a handle yields the result of the callable and the argument values
\* its own submit() call was given, whichever worker ran the task and
\* whatever was submitted since.
C3_ResultOfOwnBinding ==
    \A id \in TaskIds :
        /\ Finished(id) => shared[id] = Expected(submitted[id])
        /\ got[id] # NotRetrieved => got[id] = Expected(submitted[id])

C3_Witness ==
    \E c \in Callers : \E id1, id2 \in TaskIds :
        /\ id1 < id2
        /\ packaged[id1].owner = c /\ packaged[id2].owner = c
        /\ got[id1] = Value(3)
        /\ got[id2] = Value(12)

\* C4: a callable that throws leaves its failure in its own handle and
\* nowhere else, its worker goes on (a worker ends only once stop_ is set),
\* and the other tasks still run and yield their own results.
C4_FailureIsLocal ==
    /\ \A id \in TaskIds :
          /\ (submitted[id].f = "throws" /\ execCount[id] > 0) => shared[id] = Failure
          /\ shared[id] = Failure => submitted[id].f = "throws"
          /\ (submitted[id].f = "throws" /\ got[id] # NotRetrieved) => got[id] = Failure
    /\ \A w \in WorkerIds : wpc[w] = "done" => stop_
    /\ (Destroyed /\ num_threads >= 1) =>
          \A id \in preStop : shared[id] = Expected(submitted[id])

C4_Witness ==
    /\ num_threads = 1
    /\ Len(enqueued) = 2
    /\ submitted[enqueued[1]].f = "throws"
    /\ shared[enqueued[1]] = Failure
    /\ shared[enqueued[2]] = Value(3)
    /\ wpc[1] = "waiting"
    /\ ~stop_

\* C5: with one worker, a task is taken from the queue only after every
\* task emplaced before it has finished.
C5_SingleWorkerOrder ==
    num_threads = 1 =>
        \A i, j \in 1..Len(enqueued) :
            (i < j /\ Started(enqueued[j])) => Finished(enqueued[i])

C5_Witness ==
    /\ num_threads = 1
    /\ Len(enqueued) = 2
    /\ enqueued[1] > enqueued[2]
    /\ Finished(enqueued[1])
    /\ Started(enqueued[2])

\* C6: under fair scheduling every task emplaced while some worker had not
\* returned is eventually invoked and its handle becomes ready: whenever
\* such a task is not finished, a state follows in which all of them are.
\* (A task left in the queue for ever beside a worker blocked in the wait
\* would be such a task that never finishes.)
C6_EnqueuedEventuallyRuns ==
    (\E id \in liveEnq : ~(execCount[id] > 0 /\ Finished(id)))
        ~> (\A id \in liveEnq : execCount[id] > 0 /\ Finished(id))

C6_Witness ==
    \E id \in liveEnq :
        /\ stop_
        /\ id \notin preStop
        /\ Finished(id)
        /\ \E w \in WorkerIds : wpc[w] = "waiting"

\* C7: once stop_ is true no task is added to the queue, and after the
\* destructor of a pool with workers has returned no emplaced task is left
\* with a handle that is not ready.
C7_SubmitAfterStopRejected ==
    /\ \A id \in Range(enqueued) : id \in preStop
    /\ (Destroyed /\ num_threads >= 1) => \A id \in Range(enqueued) : Finished(id)

\* C8: a constructor called with num_threads <= 0 yields no pool.
C8_BadCountRejected ==
    num_threads <= 0 => pool = "constructing"

\* C9: no worker holds queue_mutex_ while it runs a task; when every worker
\* is running a task the mutex is held by no worker, a caller inside
\* submit() can take its next step (taking the mutex when it is free), and
\* that step does not depend on any task's shared state.
AllWorkersRunning ==
    /\ num_threads >= 1
    /\ pool # "constructing"
    /\ \A w \in Spawned : wpc[w] = "run"

C9_SubmitNeverWaitsForTasks ==
    /\ \A w \in WorkerIds : wpc[w] = "run" => queue_mutex_ # W(w)
    /\ (AllWorkersRunning /\ PoolUsable) =>
          /\ \A w \in WorkerIds : queue_mutex_ # W(w)
          /\ \A c \in Callers :
                /\ (cpc[c] = "lock" /\ queue_mutex_ = NoThread) => ENABLED SubmitLock(c)
                /\ cpc[c] = "emplace" => ENABLED SubmitEmplace(c)
                /\ cpc[c] = "notify" => ENABLED SubmitNotify(c)
                /\ (cpc[c] = "idle" /\ nextId < MaxTasks) =>
                      \A job \in Jobs : ENABLED SubmitBind(c, job)

C9_Witness ==
    /\ num_threads = 1
    /\ wpc[1] = "run"
    /\ \E c \in Callers : \E id \in Held(c) :
          /\ id \in Range(tasks_)
          /\ shared[id] = Pending
          /\ cpc[c] = "idle"

\* C10: get() yields a handle's outcome only after the handle's own task
\* has run, it can return as soon as that task has run whatever the other
\* tasks are doing, and the outcome is written once and stays as read.
C10_GetWaitsForOwnTask ==
    \A id \in TaskIds :
        /\ got[id] # NotRetrieved => (execCount[id] = 1 /\ got[id] = shared[id])
        /\ Finished(id) <=> execCount[id] > 0
        /\ execCount[id] <= 1
        /\ \A c \in Callers :
              (id \in Held(c) /\ cpc[c] = "idle" /\ got[id] = NotRetrieved /\ Finished(id))
                  => ENABLED Get(c, id)

C10_Witness ==
    \E id1, id2 \in TaskIds :
        /\ got[id1] # NotRetrieved
        /\ id2 \in Range(tasks_)
        /\ shared[id2] = Pending
        /\ enqueued = <<id1, id2>>

\* C11: under fair scheduling the destructor terminates: once it has set
\* stop_ and notified all waiters, a state follows in which every worker
\* has returned, none is blocked in the wait, every join has returned and
\* the destructor has returned.
C11_DestructorTerminates ==
    (pool = "dtorJoin")
        ~> (/\ Destroyed
            /\ waiters = {}
            /\ \A w \in Spawned : Returned(w) /\ ~joinable[w])

C11_Witness ==
    /\ Destroyed
    /\ num_threads = 2
    /\ Len(enqueued) = 2
    /\ \A w \in WorkerIds : Returned(w) /\ ~joinable[w]
    /\ \A id \in Range(enqueued) : Finished(id)

\* C12: tasks are claimed in FIFO order for any number of workers: a task
\* is taken from the queue only when every task emplaced before it has
\* been taken, and the queue is always the not yet taken tail of the
\* emplace order.
C12_FifoClaimOrder ==
    /\ \A i, j \in 1..Len(enqueued) :
          (i < j /\ Started(enqueued[j])) => Started(enqueued[i])
    /\ \E k \in 0..Len(enqueued) :
          /\ tasks_ = SubSeq(enqueued, k + 1, Len(enqueued))
          /\ \A i \in 1..k : Started(enqueued[i])

C12_Witness ==
    /\ num_threads = 2
    /\ enqueued = <<2, 1>>
    /\ wtask[1] # NoTask
    /\ wtask[2] # NoTask

\* C13: a worker returns only in a step it takes while holding the mutex
\* with stop_ true and the queue empty, and a worker that has returned
\* stays returned and never again holds, takes or runs a task.
C13_ExitOnlyWhenStoppedAndEmpty ==
    [][\A w \in WorkerIds :
          /\ (wpc[w] # "done" /\ wpc'[w] = "done") =>
                /\ wpc[w] = "check"
                /\ queue_mutex_ = W(w)
                /\ stop_
                /\ tasks_ = <<>>
                /\ wtask[w] = NoTask
          /\ wpc[w] = "done" =>
                /\ wpc'[w] = "done"
                /\ wtask'[w] = NoTask
                /\ queue_mutex_' # W(w)]_vars

C13_Witness ==
    /\ num_threads = 2
    /\ wpc[1] = "done"
    /\ wpc[2] = "run"
    /\ execCount[1] + execCount[2] = 1
    /\ tasks_ = <<>>

\* C14: a wake-up alone makes a worker neither return nor dequeue: a woken
\* worker only goes on to take the mutex and test the predicate again; a
\* worker goes past the wait (to return or to dequeue) only while holding
\* the mutex with stop_ set or the queue not empty, it blocks only when
\* neither holds, and whenever it takes front() and pops, the queue is not
\* empty and it gets the head.
C14_WakeupRechecksPredicate ==
    [][\A w \in WorkerIds :
          /\ wpc[w] = "waiting" => wpc'[w] \in {"waiting", "relock"}
          /\ wpc[w] = "relock" => wpc'[w] \in {"relock", "check"}
          /\ (wpc[w] \in {"waiting", "relock"} /\ wpc'[w] # wpc[w]) =>
                (tasks_' = tasks_ /\ wtask' = wtask)
          /\ (wpc[w] = "check" /\ wpc'[w] \in {"run", "done"}) =>
                (queue_mutex_ = W(w) /\ (stop_ \/ tasks_ # <<>>))
          /\ (wpc[w] = "check" /\ wpc'[w] = "waiting") =>
                (~stop_ /\ tasks_ = <<>>)
          /\ (wpc[w] = "check" /\ wpc'[w] = "run") =>
                /\ tasks_ # <<>>
                /\ wtask'[w] = Head(tasks_)
                /\ tasks_' = Tail(tasks_)]_vars

\* Both workers were woken for one task: one runs it, the other is about to
\* test the predicate again and find nothing to do.
C14_Witness ==
    /\ num_threads = 2
    /\ ~stop_
    /\ Len(enqueued) = 1
    /\ tasks_ = <<>>
    /\ \E w1, w2 \in WorkerIds :
          /\ wpc[w1] = "run"
          /\ wpc[w2] = "relock"

\* The threads that are inside a lock scope of queue_mutex_.
InLockScope ==
    { W(w) : w \in { x \in WorkerIds : wpc[x] = "check" } }
        \cup { C(c) : c \in { x \in Callers : cpc[x] = "emplace" } }
        \cup (IF pool = "dtorStop" THEN {Owner} ELSE {})

\* C15: at most one thread is inside a lock scope and it is the holder of
\* queue_mutex_ (a worker blocked in the wait, woken, running or returned
\* does not hold it); tasks_ changes only in a step of the worker or
\* caller that holds the mutex, stop_ only in a step of the owner holding
\* it, and a worker tests stop_ and the queue only while holding it.
C15_SharedStateUnderMutex ==
    [][/\ Cardinality(InLockScope') <= 1
       /\ InLockScope' = (IF queue_mutex_' = NoThread THEN {} ELSE {queue_mutex_'})
       /\ \A w \in WorkerIds : w \in waiters' => queue_mutex_' # W(w)
       /\ tasks_' # tasks_ =>
             \/ \E w \in WorkerIds : queue_mutex_ = W(w) /\ wpc[w] = "check" /\ wpc'[w] = "run"
             \/ \E c \in Callers : queue_mutex_ = C(c) /\ cpc[c] = "emplace" /\ cpc'[c] = "notify"
       /\ stop_' # stop_ =>
             (queue_mutex_ = Owner /\ pool = "dtorStop" /\ pool' = "dtorNotify")
       /\ \A w \in WorkerIds :
             (wpc[w] = "check" /\ wpc'[w] # "check") => queue_mutex_ = W(w)]_vars

C15_Witness ==
    /\ num_threads = 2
    /\ queue_mutex_ = C(1)
    /\ cpc[2] = "lock"
    /\ pool = "dtorLock"
    /\ wpc[1] = "waiting"
    /\ wpc[2] = "lock"

\* C16: stop_ starts false, never goes from true to false, changes only in
\* the destructor's step that holds the mutex, which runs once and finds it
\* false, and is true from then on; no step of submit() or of a worker
\* changes it.
C16_StopIsMonotonic ==
    /\ stop_ = FALSE
    /\ [][/\ stop_ => stop_'
          /\ stop_' # stop_ =>
                (pool = "dtorStop" /\ pool' = "dtorNotify" /\ queue_mutex_ = Owner)
          /\ pool = "dtorStop" => ~stop_
          /\ pool' \in {"dtorNotify", "dtorJoin", "destroyed"} => stop_'
          /\ pool' \in {"constructing", "live", "dtorLock", "dtorStop"} => ~stop_'
          /\ (cpc' # cpc \/ wpc' # wpc) => stop_' = stop_]_vars

C16_Witness ==
    /\ stop_
    /\ num_threads = 2
    /\ \E id \in Range(enqueued) : id \notin preStop /\ execCount[id] = 1
    /\ \E id \in preStop : execCount[id] = 1
    /\ \E w \in WorkerIds : wpc[w] = "done"

\* C17: for num_threads >= 1 the constructor spawns exactly num_threads
\* distinct workers, workers_ does not change once the pool is constructed
\* (whatever is submitted, run or thrown), no worker is joined before the
\* destructor's join loop, a join happens only there, on a worker that has
\* returned, and when the destructor has returned each worker has been
\* joined (a joined thread is not joinable, so it is joined once).
C17_WorkerSetIsFixed ==
    [][num_threads >= 1 =>
          /\ num_threads' = num_threads
          /\ Len(workers_') <= num_threads
          /\ Cardinality(Range(workers_')) = Len(workers_')
          /\ pool' # "constructing" => Len(workers_') = num_threads
          /\ pool # "constructing" => workers_' = workers_
          /\ \A w \in WorkerIds : joinable'[w] # joinable[w] =>
                \/ /\ pool = "constructing"
                   /\ joinable'[w]
                   /\ workers_' = Append(workers_, w)
                \/ /\ pool = "dtorJoin"
                   /\ ~joinable'[w]
                   /\ w = workers_[joinIdx + 1]
                   /\ Returned(w)
          /\ pool' \in {"live", "dtorLock", "dtorStop", "dtorNotify"} =>
                \A w \in Range(workers_') : joinable'[w]
          /\ pool' = "destroyed" =>
                \A w \in Range(workers_') : ~joinable'[w]]_vars

C17_Witness ==
    /\ Destroyed
    /\ num_threads = 2
    /\ workers_ = <<1, 2>>
    /\ \A w \in WorkerIds : ~joinable[w]
    /\ \E id \in TaskIds : shared[id] = Failure

\* What no step of submit() touches.
SubmitFrame == << stop_, workers_, joinable, num_threads, pool, shared, got,
                  wtask, execCount >>

\* C18: a submit() call changes the queue in one step only, which appends
\* its one task at the back and leaves the queued tasks in place; its
\* notify step takes one worker out of the wait (none if no worker waits)
\* and changes no other worker; stop_, the worker set, the other packaged
\* tasks and every shared state stay as they were throughout.
C18_SubmitFrame ==
    [][\A c \in Callers : cpc'[c] # cpc[c] =>
          /\ SubmitFrame' = SubmitFrame
          /\ \A id \in 1..nextId : packaged'[id] = packaged[id]
          /\ (cpc[c] = "emplace") =>
                /\ cur[c] \notin Range(tasks_)
                /\ tasks_' = Append(tasks_, cur[c])
                /\ waiters' = waiters
                /\ wpc' = wpc
          /\ (cpc[c] # "emplace") => tasks_' = tasks_
          /\ (cpc[c] = "notify") =>
                /\ waiters' \subseteq waiters
                /\ Cardinality(waiters \ waiters') = (IF waiters = {} THEN 0 ELSE 1)
                /\ \A w \in WorkerIds :
                      wpc'[w] = (IF w \in waiters \ waiters' THEN "relock" ELSE wpc[w])
          /\ (cpc[c] # "notify") => (waiters' = waiters /\ wpc' = wpc)]_vars

C18_Witness ==
    /\ num_threads = 2
    /\ ~stop_
    /\ nextId = 1
    /\ tasks_ = <<1>>
    /\ \A c \in Callers : cpc[c] = "idle"
    /\ \E w1, w2 \in WorkerIds :
          /\ wpc[w1] = "relock"
          /\ wpc[w2] = "waiting"

====
